---------------------------- MODULE Spec2Model ----------------------------
(***************************************************************************)
(* Model of the anne-key firmware glue:                                    *)
(*   - src/usb/usb_ext.rs : read-modify-write operations on the USB        *)
(*     endpoint control registers USB_EP0R / USB_EP1R                      *)
(*   - src/led.rs         : the LED controller (Led), its command API and  *)
(*     the receive poll/finish/re-arm cycle                                *)
(*                                                                         *)
(* A 32-bit word is modelled as the set of the positions of its 1 bits     *)
(* (a subset of 0..31), so that &, |, ^ and ! are set operations and the   *)
(* u32 constant 0x8000_0000 is representable.                              *)
(***************************************************************************)
EXTENDS Integers, Sequences, FiniteSets, TLC

VARIABLES
    usb_ep0r,   \* USB.usb_ep0r : endpoint 0 register (hardware, 16 bits)
    usb_ep1r,   \* USB.usb_ep1r : endpoint 1 register (hardware, 16 bits)
    uop,        \* register operation between its read and its write, or "none"
    ubb,        \* the word that operation read (self.usb_epNr.read().bits())
    uhist,      \* record of the register operation that has just completed
    uhw,        \* number of flags the peripheral has raised so far
    state,      \* Led.state : the toggle flag
    rx_transfer, \* Led.rx_transfer : "Some" or "None"
    pc15,       \* Led.pc15 : the indicator line
    rx_state,   \* the receive Transfer: "InFlight" from receive() to finish()
    rx_done,    \* the hardware has delivered the expected byte count
    buffer,     \* contents of the receive buffer
    rx_origin,  \* the frame the remote encoded into the buffer, or Raw
    lpc,        \* position inside Led::poll, "idle" outside it
    message,    \* the Message poll() decoded, NoMessage outside decode
    dispatch,   \* what handle_message did with it
    tx_busy,    \* serial: a send is outstanding
    tx_frame,   \* serial: the frame being sent
    last,       \* record of the last completed Led operation
    toggle_odd  \* the number of toggle() calls so far is odd

usbVars == <<usb_ep0r, usb_ep1r, uop, ubb, uhist, uhw>>

ledVars == <<state, rx_transfer, pc15, rx_state, rx_done, buffer, rx_origin,
             lpc, message, dispatch, tx_busy, tx_frame, last, toggle_odd>>

vars == <<usb_ep0r, usb_ep1r, uop, ubb, uhist, uhw,
          state, rx_transfer, pc15, rx_state, rx_done, buffer, rx_origin,
          lpc, message, dispatch, tx_busy, tx_frame, last, toggle_odd>>

\* the peripheral raises at most this many flags in one run
MaxHwEvents == 1

\* capacity of the receive buffer (BUFFER) in bytes
BufCap == 6

---------------------------------------------------------------------------
(* 32-bit words as bit sets                                                *)

Word32 == 0 .. 31
Half16 == 0 .. 15

\* the bit set of a number n < 2^31
Bits(n) == { i \in 0 .. 30 : (n \div (2 ^ i)) % 2 = 1 }

And(a, b) == a \cap b
Or(a, b)  == a \cup b
Xor(a, b) == (a \ b) \cup (b \ a)
Not(a)    == Word32 \ a

---------------------------------------------------------------------------
(* usb_ext.rs constants                                                    *)

\* 1 << 15 | 1 << 11 | 1 << 10 | 1 << 9 | 1 << 8 | 0xf
USB_EPREG_MASK == {15} \cup {11} \cup {10} \cup {9} \cup {8} \cup Bits(15)

\* 0x30
USB_EPTX_STAT == Bits(48)
USB_EPTX_DTOGMASK == Or(USB_EPTX_STAT, USB_EPREG_MASK)

\* 0x3000
USB_EPRX_STAT == Bits(12288)
USB_EPRX_DTOGMASK == Or(USB_EPRX_STAT, USB_EPREG_MASK)

\* 0x8000
USB_EP_CTR_RX == Bits(32768)
\* 0x8000_0000
USB_EP_CTR_TX == {31}

---------------------------------------------------------------------------
(* The value each operation writes, as a function of the word it read      *)

\* a variant that omits the & USB_EPREG_MASK
clear_tx_ctr_unmasked(r) == And(r, Bits(65407))

\* (read & 0xFF7F) & USB_EPREG_MASK
clear_tx_ctr_bits(r) == And(And(r, Bits(65407)), USB_EPREG_MASK)

\* (read & 0x7FFF) & USB_EPREG_MASK
clear_rx_ctr_bits(r) == And(And(r, Bits(32767)), USB_EPREG_MASK)

\* if (bb & m) == 0 { bb |= m } else { bb &= !m }   for a one-bit m
FlipIf(bb, m) == IF And(bb, m) = {} THEN Or(bb, m) ELSE And(bb, Not(m))

\* a variant that writes the target status instead of the toggle pattern
set_ep_tx_status_valid_direct(r) ==
    LET b0 == And(r, USB_EPTX_DTOGMASK)
        b1 == Or(b0, USB_EPTX_STAT)
    IN  Or(Or(b1, USB_EP_CTR_RX), USB_EP_CTR_TX)

set_ep_tx_status_valid_bits(r) ==
    LET b0 == And(r, USB_EPTX_DTOGMASK)
        b1 == FlipIf(b0, Bits(16))
        b2 == FlipIf(b1, Bits(32))
    IN  Or(Or(b2, USB_EP_CTR_RX), USB_EP_CTR_TX)

set_ep_tx_status_valid_dtog_bits(r) ==
    LET b0 == And(r, USB_EPTX_DTOGMASK)
        b1 == FlipIf(b0, Bits(16))
        b2 == FlipIf(b1, Bits(32))
        b3 == Or(b2, Bits(4096))
    IN  Or(Or(b3, USB_EP_CTR_RX), USB_EP_CTR_TX)

set_ep_rx_status_valid_bits(r) ==
    LET b0 == And(r, USB_EPRX_DTOGMASK)
        b1 == FlipIf(b0, Bits(4096))
        b2 == FlipIf(b1, Bits(8192))
        b3 == And(b2, Not(Bits(4096)))
    IN  Or(Or(b3, USB_EP_CTR_RX), USB_EP_CTR_TX)

set_ep_rx_status_valid_dtog_bits(r) ==
    LET b0 == And(r, USB_EPRX_DTOGMASK)
        b1 == FlipIf(b0, Bits(4096))
        b2 == FlipIf(b1, Bits(8192))
        b3 == Or(b2, Bits(4096))
    IN  Or(Or(b3, USB_EP_CTR_RX), USB_EP_CTR_TX)

set_ep1_tx_status_valid_dtog_bits(r) ==
    LET b0 == And(r, USB_EPTX_DTOGMASK)
        b1 == FlipIf(b0, Bits(16))
        b2 == FlipIf(b1, Bits(32))
        b3 == Or(b2, Bits(4096))
    IN  Or(Or(b3, USB_EP_CTR_RX), USB_EP_CTR_TX)

---------------------------------------------------------------------------
(* The endpoint register as the hardware keeps it (USB_EPnR, 16 bits):     *)
(*   15 CTR_RX  14 DTOG_RX  13:12 STAT_RX  11 SETUP  10:9 EP_TYPE          *)
(*    8 EP_KIND  7 CTR_TX    6 DTOG_TX     5:4 STAT_TX  3:0 EA             *)

CtrBits    == {15, 7}               \* write 0 clears, write 1 is a no-op
ToggleBits == {14, 13, 12, 6, 5, 4} \* write 1 flips, write 0 leaves
SetupBit   == {11}                  \* read-only
PlainBits  == {10, 9, 8, 3, 2, 1, 0} \* ordinary read/write

\* the register after the word w is written to a register holding cur
HwWrite(cur, w) ==
    LET w16 == And(w, Half16)
    IN  And(And(cur, w16), CtrBits)
          \cup And(Xor(cur, w16), ToggleBits)
          \cup And(cur, SetupBit)
          \cup And(w16, PlainBits)

StatTx(r) == And(r, {5, 4})
StatRx(r) == And(r, {13, 12})
DtogBits(r) == And(r, {14, 6})
ConfigBits(r) == And(r, {10, 9, 8, 3, 2, 1, 0})
Valid_TX == {5, 4}
Valid_RX == {13, 12}

Reg(ep) == IF ep = 0 THEN usb_ep0r ELSE usb_ep1r

---------------------------------------------------------------------------
(* Register operations: one read of the register, then one write           *)

NoHist == [op |-> "none", rd |-> 0, wr |-> 0, cur |-> {}, w |-> {},
           pre |-> <<{}, {}>>, post |-> <<{}, {}>>]

\* self.usb_epNr.read().bits()
ReadStep(op, ep) ==
    /\ uop = "none"
    /\ uop' = op
    /\ ubb' = Reg(ep)
    /\ uhist' = NoHist
    /\ UNCHANGED <<usb_ep0r, usb_ep1r, uhw>>
    /\ UNCHANGED ledVars

\* self.usb_epNr.write(|w| w.bits(value))
WriteStep(op, rd, ep, value) ==
    /\ uop = op
    /\ uop' = "none"
    /\ ubb' = {}
    /\ UNCHANGED uhw
    /\ UNCHANGED ledVars
    /\ usb_ep0r' = IF ep = 0 THEN HwWrite(usb_ep0r, value) ELSE usb_ep0r
    /\ usb_ep1r' = IF ep = 1 THEN HwWrite(usb_ep1r, value) ELSE usb_ep1r
    /\ uhist' = [op |-> op, rd |-> rd, wr |-> ep, cur |-> ubb, w |-> value,
                 pre |-> <<usb_ep0r, usb_ep1r>>,
                 post |-> <<usb_ep0r', usb_ep1r'>>]

clear_tx_ep_ctr ==
    \/ ReadStep("clear_tx_ep_ctr", 0)
    \/ WriteStep("clear_tx_ep_ctr", 0, 0, clear_tx_ctr_bits(ubb))

clear_rx_ep_ctr ==
    \/ ReadStep("clear_rx_ep_ctr", 0)
    \/ WriteStep("clear_rx_ep_ctr", 0, 0, clear_rx_ctr_bits(ubb))

\* a variant that addresses the endpoint 0 register
clear_tx_ep1_ctr_on_ep0 ==
    \/ ReadStep("clear_tx_ep1_ctr", 0)
    \/ WriteStep("clear_tx_ep1_ctr", 0, 0, clear_tx_ctr_bits(ubb))

clear_tx_ep1_ctr ==
    \/ ReadStep("clear_tx_ep1_ctr", 1)
    \/ WriteStep("clear_tx_ep1_ctr", 1, 1, clear_tx_ctr_bits(ubb))

clear_rx_ep1_ctr ==
    \/ ReadStep("clear_rx_ep1_ctr", 1)
    \/ WriteStep("clear_rx_ep1_ctr", 1, 1, clear_rx_ctr_bits(ubb))

set_ep_tx_status_valid ==
    \/ ReadStep("set_ep_tx_status_valid", 0)
    \/ WriteStep("set_ep_tx_status_valid", 0, 0,
                 set_ep_tx_status_valid_bits(ubb))

set_ep_tx_status_valid_dtog ==
    \/ ReadStep("set_ep_tx_status_valid_dtog", 0)
    \/ WriteStep("set_ep_tx_status_valid_dtog", 0, 0,
                 set_ep_tx_status_valid_dtog_bits(ubb))

set_ep_rx_status_valid ==
    \/ ReadStep("set_ep_rx_status_valid", 0)
    \/ WriteStep("set_ep_rx_status_valid", 0, 0,
                 set_ep_rx_status_valid_bits(ubb))

set_ep_rx_status_valid_dtog ==
    \/ ReadStep("set_ep_rx_status_valid_dtog", 0)
    \/ WriteStep("set_ep_rx_status_valid_dtog", 0, 0,
                 set_ep_rx_status_valid_dtog_bits(ubb))

set_ep1_tx_status_valid_dtog ==
    \/ ReadStep("set_ep1_tx_status_valid_dtog", 1)
    \/ WriteStep("set_ep1_tx_status_valid_dtog", 1, 1,
                 set_ep1_tx_status_valid_dtog_bits(ubb))

\* the peripheral completes a transaction on endpoint ep and raises a CTR flag
HwSetCtr ==
    \E ep \in {0, 1}, f \in CtrBits :
        /\ uhw < MaxHwEvents
        /\ f \notin Reg(ep)
        /\ uhw' = uhw + 1
        /\ usb_ep0r' = IF ep = 0 THEN usb_ep0r \cup {f} ELSE usb_ep0r
        /\ usb_ep1r' = IF ep = 1 THEN usb_ep1r \cup {f} ELSE usb_ep1r
        /\ UNCHANGED <<uop, ubb, uhist>>
        /\ UNCHANGED ledVars

---------------------------------------------------------------------------
(* Register contents the operations are applied to                         *)

\* endpoint configurations (EP_TYPE, EP_KIND, EA): control endpoint 0 and
\* interrupt endpoint 1
Ep0Config == {9}
Ep1Config == {10, 9, 0}

\* every value of the flag, data-toggle and status bits
RegInputs(cfg) == { s \cup cfg : s \in SUBSET {15, 14, 13, 12, 7, 6, 5, 4} }

UsbInit ==
    /\ \/ usb_ep0r \in RegInputs(Ep0Config) /\ usb_ep1r = Ep1Config
       \/ usb_ep0r = Ep0Config /\ usb_ep1r \in RegInputs(Ep1Config)
    /\ uop = "none"
    /\ ubb = {}
    /\ uhist = NoHist
    /\ uhw = 0

UsbNext ==
    \/ clear_tx_ep_ctr
    \/ clear_rx_ep_ctr
    \/ clear_tx_ep1_ctr
    \/ clear_rx_ep1_ctr
    \/ set_ep_tx_status_valid
    \/ set_ep_tx_status_valid_dtog
    \/ set_ep_rx_status_valid
    \/ set_ep_rx_status_valid_dtog
    \/ set_ep1_tx_status_valid_dtog
    \/ HwSetCtr

---------------------------------------------------------------------------
(* protocol: channels, opcodes and the frame layout                        *)

\* MsgType as u8
MsgTypeByte == [Reserved |-> 0, Error |-> 1, System |-> 2, Ack |-> 3,
                Reboot |-> 4, Macro |-> 5, Ble |-> 6, Keyboard |-> 7,
                Keyup |-> 8, Led |-> 9]

MsgTypes == DOMAIN MsgTypeByte

\* MsgType::from(u8)
MsgTypeFrom(b) ==
    IF \E t \in MsgTypes : MsgTypeByte[t] = b
    THEN CHOOSE t \in MsgTypes : MsgTypeByte[t] = b
    ELSE "Unknown"

\* LedOp as u8
LedOp == [ThemeMode |-> 1, ConfigCmd |-> 5, Music |-> 6, Key |-> 7,
          SetIndividualKeys |-> 11, GetThemeId |-> 12,
          AckThemeMode |-> 129, AckConfigCmd |-> 133,
          AckSetIndividualKeys |-> 139]

\* LedOp::from(u8)
LedOpFrom(b) ==
    IF \E o \in DOMAIN LedOp : LedOp[o] = b
    THEN CHOOSE o \in DOMAIN LedOp : LedOp[o] = b
    ELSE "Other"

\* enum LedMode { _Off, On, Flash } as u8
LedMode == [Off |-> 0, On |-> 1, Flash |-> 2]

\* KeyIndex as u8, for the keys bluetooth_mode names
KeyIndex == [Escape |-> 0, N1 |-> 1, N2 |-> 2, N3 |-> 3, N4 |-> 4,
             N0 |-> 10, Minus |-> 11, Equal |-> 12, A |-> 29, B |-> 47]

\* the frame serial.send puts on the wire: [channel, 1 + len, opcode, payload]
Encode(ch, op, payload) ==
    <<MsgTypeByte[ch], (1 + Len(payload)) % 256, op>> \o payload

NoMessage == [msg_type |-> "none", operation |-> 0, data |-> <<>>]

\* &buffer[3..3 + buffer[1] as usize - 1] is in range (0-based, end exclusive)
DecodeInRange(b) ==
    /\ Len(b) >= 3
    /\ 3 <= 3 + b[2] - 1
    /\ 3 + b[2] - 1 <= Len(b)

\* a variant whose slice ends at 3 + buffer[1]
DecodeNoMinusOne(b) ==
    [msg_type  |-> MsgTypeFrom(b[1]),
     operation |-> b[3],
     data      |-> SubSeq(b, 4, 3 + b[2])]

\* Message { msg_type: MsgType::from(buffer[0]), operation: buffer[2],
\*           data: &buffer[3..3 + buffer[1] as usize - 1] }
Decode(b) ==
    [msg_type  |-> MsgTypeFrom(b[1]),
     operation |-> b[3],
     data      |-> SubSeq(b, 4, 3 + b[2] - 1)]

\* what handle_message does with a message: nothing for the three
\* acknowledgements on channel Led, a debug! line for everything else
IsAck(m) ==
    /\ m.msg_type = "Led"
    /\ LedOpFrom(m.operation) \in
          {"AckThemeMode", "AckConfigCmd", "AckSetIndividualKeys"}

\* a variant whose acknowledgement arms flip the toggle flag
HandledFlagAckFlips(m, s) == IF IsAck(m) THEN ~s ELSE s

\* self.state after handle_message(&message): no arm assigns it
HandledFlag(m, s) == s

handle_message(m) ==
    IF m.msg_type = "Led"
    THEN IF LedOpFrom(m.operation) \in
              {"AckThemeMode", "AckConfigCmd", "AckSetIndividualKeys"}
         THEN "ignored"
         ELSE "logged"
    ELSE "logged"

---------------------------------------------------------------------------
(* serial: one outstanding send, one armed receive                         *)

\* the result of serial.send
SendResult == IF tx_busy THEN "WouldBlock" ELSE "Ok"

NoLast == [call |-> "new", arg |-> <<>>, sends |-> 0, ch |-> "none",
           op |-> 0, payload |-> <<>>, result |-> "Ok"]

\* self.serial.send(ch, op, payload), called once by the command `call`
\* whose arguments were arg; the command returns the send's result
Send(call, arg, ch, op, payload) ==
    /\ last' = [call |-> call, arg |-> arg, sends |-> 1, ch |-> ch,
                op |-> op, payload |-> payload, result |-> SendResult]
    /\ tx_busy' = TRUE
    /\ tx_frame' = IF tx_busy THEN tx_frame ELSE Encode(ch, op, payload)

\* what a command leaves alone
CommandFrame ==
    UNCHANGED <<usbVars, rx_transfer, pc15, rx_state, rx_done, buffer, rx_origin,
                lpc, message, dispatch, toggle_odd>>

---------------------------------------------------------------------------
(* The command API of Led                                                  *)

\* arguments the callers pass
ThemeIds == {0, 7}
PackedKeys == {<<0, 0>>, <<1, 128>>}
MusicKeys == {<<>>, <<3, 4>>}
KeyPayloads == {<<202, 0>>, <<202, 1, 5, 255, 0, 0, 1>>}
BluetoothModes == {"Unknown", "Ble", "Legacy"}

on ==
    /\ lpc = "idle"
    /\ UNCHANGED usbVars
    /\ pc15' = "high"
    /\ last' = [NoLast EXCEPT !.call = "on"]
    /\ UNCHANGED <<state, rx_transfer, rx_state, rx_done, buffer, rx_origin,
                   lpc, message, dispatch, tx_busy, tx_frame, toggle_odd>>

off ==
    /\ lpc = "idle"
    /\ UNCHANGED usbVars
    /\ pc15' = "low"
    /\ last' = [NoLast EXCEPT !.call = "off"]
    /\ UNCHANGED <<state, rx_transfer, rx_state, rx_done, buffer, rx_origin,
                   lpc, message, dispatch, tx_busy, tx_frame, toggle_odd>>

\* a variant that flips the flag only when the send was accepted
ToggleFlagIfOk(s, result) == IF result = "Ok" THEN ~s ELSE s

\* the flag toggle() leaves behind: self.state = !self.state
ToggleFlag(s, result) == ~s

toggle ==
    /\ lpc = "idle"
    /\ UNCHANGED usbVars
    /\ IF ~state
       THEN Send("toggle", <<>>, "Led", LedOp.ThemeMode, <<>>)
       ELSE Send("toggle", <<>>, "Led", LedOp.ThemeMode, <<0>>)
    /\ state' = ToggleFlag(state, SendResult)
    /\ toggle_odd' = ~toggle_odd
    /\ UNCHANGED <<rx_transfer, pc15, rx_state, rx_done, buffer, rx_origin,
                   lpc, message, dispatch>>

\* &[1, 0, 0]
next_theme_payload == <<1, 0, 0>>

\* a variant with the brightness and speed positions exchanged
next_brightness_swapped == <<0, 1, 0>>

\* &[0, 0, 1]
next_brightness_payload == <<0, 0, 1>>

\* &[0, 1, 0]
next_animation_speed_payload == <<0, 1, 0>>

next_theme ==
    /\ lpc = "idle"
    /\ Send("next_theme", <<>>, "Led", LedOp.ConfigCmd, next_theme_payload)
    /\ UNCHANGED state
    /\ CommandFrame

next_brightness ==
    /\ lpc = "idle"
    /\ Send("next_brightness", <<>>, "Led", LedOp.ConfigCmd,
            next_brightness_payload)
    /\ UNCHANGED state
    /\ CommandFrame

next_animation_speed ==
    /\ lpc = "idle"
    /\ Send("next_animation_speed", <<>>, "Led", LedOp.ConfigCmd,
            next_animation_speed_payload)
    /\ UNCHANGED state
    /\ CommandFrame

\* a variant of set_theme that also sets the toggle flag
set_theme_sets_flag ==
    \E theme \in ThemeIds :
        /\ lpc = "idle"
        /\ Send("set_theme", <<theme>>, "Led", LedOp.ThemeMode, <<theme>>)
        /\ state' = TRUE
        /\ CommandFrame

set_theme ==
    \E theme \in ThemeIds :
        /\ lpc = "idle"
        /\ Send("set_theme", <<theme>>, "Led", LedOp.ThemeMode, <<theme>>)
        /\ UNCHANGED state
        /\ CommandFrame

send_keys ==
    \E packed \in PackedKeys :
        /\ lpc = "idle"
        /\ Send("send_keys", packed, "Led", LedOp.Key, packed)
        /\ UNCHANGED state
        /\ CommandFrame

send_music ==
    \E keys \in MusicKeys :
        /\ lpc = "idle"
        /\ Send("send_music", keys, "Led", LedOp.Music, keys)
        /\ UNCHANGED state
        /\ CommandFrame

get_theme_id ==
    /\ lpc = "idle"
    /\ Send("get_theme_id", <<>>, "Led", LedOp.GetThemeId, <<>>)
    /\ UNCHANGED state
    /\ CommandFrame

set_keys ==
    \E payload \in KeyPayloads :
        /\ lpc = "idle"
        /\ Send("set_keys", payload, "Led", LedOp.SetIndividualKeys, payload)
        /\ UNCHANGED state
        /\ CommandFrame

theme_mode ==
    /\ lpc = "idle"
    /\ Send("theme_mode", <<>>, "Led", LedOp.ThemeMode, <<>>)
    /\ UNCHANGED state
    /\ CommandFrame

\* a variant with the colours of Ble and Legacy exchanged
mode_color_exchanged(mode) ==
    CASE mode = "Unknown" -> <<0, 0, 255>>
      [] mode = "Ble"     -> <<255, 255, 0>>
      [] mode = "Legacy"  -> <<0, 255, 0>>

mode_color(mode) ==
    CASE mode = "Unknown" -> <<0, 0, 255>>
      [] mode = "Ble"     -> <<0, 255, 0>>
      [] mode = "Legacy"  -> <<255, 255, 0>>

bluetooth_payload(mode) ==
    <<202, 10,
      KeyIndex.Escape, 255, 255, 0, LedMode.On,
      KeyIndex.N1,     255, 0,   0, LedMode.Flash,
      KeyIndex.N2,     255, 0,   0, LedMode.On,
      KeyIndex.N3,     255, 0,   0, LedMode.On,
      KeyIndex.N4,     255, 0,   0, LedMode.On,
      KeyIndex.Equal,  0,   255, 0, LedMode.On,
      KeyIndex.B,      0,   255, 0, LedMode.Flash,
      KeyIndex.Minus,  0,   255, 0, LedMode.On,
      KeyIndex.N0, mode_color(mode)[1], mode_color(mode)[2],
                   mode_color(mode)[3], LedMode.On,
      KeyIndex.A,      0,   255, 0, LedMode.On>>

bluetooth_mode ==
    \E mode \in BluetoothModes :
        /\ lpc = "idle"
        /\ Send("bluetooth_mode", <<mode>>, "Led", LedOp.SetIndividualKeys,
                bluetooth_payload(mode))
        /\ UNCHANGED state
        /\ CommandFrame

---------------------------------------------------------------------------
(* Led::poll, in the three steps the receive buffer passes through         *)

PollLast(result) == [NoLast EXCEPT !.call = "poll", !.result = result]

\* a variant that calls serial.receive without storing the transfer
RearmDropped == "None"

\* rx_transfer after self.rx_transfer = Some(self.serial.receive(buffer))
Rearmed == "Some"

\* the result of the transfer's poll: WouldBlock while bytes are missing
TransferPoll == IF rx_done THEN "Ok" ELSE "WouldBlock"

\* a variant that takes and finishes the transfer whatever its poll returned
FinishAlways(result) == TRUE

\* match result { Err(nb::Error::WouldBlock) => {} Ok(()) => { .. } } :
\* whether poll() goes on to take and finish the transfer
FinishOn(result) == result = "Ok"

\* self.rx_transfer.as_mut().unwrap().poll(..) (unwrap panics on None), and
\* on Ok self.rx_transfer.take().unwrap().finish()
poll_begin ==
    /\ lpc = "idle"
    /\ UNCHANGED usbVars
    /\ IF rx_transfer = "None"
       THEN /\ lpc' = "panic"
            /\ UNCHANGED <<rx_transfer, rx_state, last>>
       ELSE /\ last' = PollLast(TransferPoll)
            /\ IF FinishOn(TransferPoll)
               THEN /\ rx_transfer' = "None"
                    /\ rx_state' = "Idle"
                    /\ lpc' = "finished"
               ELSE UNCHANGED <<rx_transfer, rx_state, lpc>>
    /\ UNCHANGED <<state, pc15, rx_done, buffer, rx_origin, message,
                   dispatch, tx_busy, tx_frame, toggle_odd>>

\* the block that builds the Message and calls handle_message on it; an
\* out-of-range slice panics and poll never returns
poll_decode ==
    /\ lpc = "finished"
    /\ UNCHANGED usbVars
    /\ IF DecodeInRange(buffer)
       THEN /\ message' = Decode(buffer)
            /\ state' = HandledFlag(Decode(buffer), state)
            /\ dispatch' = handle_message(Decode(buffer))
            /\ lpc' = "decoded"
       ELSE /\ lpc' = "panic"
            /\ UNCHANGED <<message, dispatch, state>>
    /\ UNCHANGED <<rx_transfer, pc15, rx_state, rx_done, buffer,
                   rx_origin, tx_busy, tx_frame, last, toggle_odd>>

\* self.rx_transfer = Some(self.serial.receive(buffer))
poll_rearm ==
    /\ lpc = "decoded"
    /\ UNCHANGED usbVars
    /\ rx_transfer' = Rearmed
    /\ rx_state' = "InFlight"
    /\ rx_done' = FALSE
    /\ message' = NoMessage
    /\ dispatch' = "none"
    /\ lpc' = "idle"
    /\ last' = PollLast("Ok")
    /\ UNCHANGED <<state, pc15, buffer, rx_origin, tx_busy, tx_frame,
                   toggle_odd>>

poll == poll_begin \/ poll_decode \/ poll_rearm

\* DMA1_CHANNEL3 handler
rx == poll

\* DMA1_CHANNEL2 handler: r.LED.serial.tx_interrupt() ends the outstanding send
tx ==
    /\ lpc = "idle"
    /\ UNCHANGED usbVars
    /\ tx_busy
    /\ tx_busy' = FALSE
    /\ tx_frame' = <<>>
    /\ UNCHANGED <<state, rx_transfer, pc15, rx_state, rx_done, buffer,
                   rx_origin, lpc, message, dispatch, last, toggle_odd>>

---------------------------------------------------------------------------
(* The remote end of the link                                              *)

\* the longest payload whose frame fits the buffer and the length byte
MaxPayloadLen == IF BufCap - 3 < 254 THEN BufCap - 3 ELSE 254

Raw == <<"raw">>

RxChannels == {"Led", "Keyboard"}
RxOpcodes == {LedOp.AckThemeMode, LedOp.AckConfigCmd,
              LedOp.AckSetIndividualKeys, LedOp.ThemeMode}
RxPayloads == {<<>>, <<202>>, [i \in 1 .. MaxPayloadLen |-> i],
               [i \in 1 .. MaxPayloadLen |-> 255]}

\* length bytes no well-formed frame of this buffer carries
BadLengths == {0, BufCap, 255}

Pad(frame) == frame \o [i \in 1 .. BufCap - Len(frame) |-> 0]

\* the receive completes with a frame the remote encoded
RxFrame ==
    \E ch \in RxChannels, op \in RxOpcodes, payload \in RxPayloads :
        /\ lpc = "idle"
        /\ rx_state = "InFlight"
        /\ ~rx_done
        /\ buffer' = Pad(Encode(ch, op, payload))
        /\ rx_origin' = <<ch, op, payload>>
        /\ rx_done' = TRUE
        /\ UNCHANGED usbVars
        /\ UNCHANGED <<state, rx_transfer, pc15, rx_state, lpc, message,
                       dispatch, tx_busy, tx_frame, last, toggle_odd>>

\* the receive completes with bytes whose length byte is corrupted
RxCorrupt ==
    \E n \in BadLengths :
        /\ lpc = "idle"
        /\ rx_state = "InFlight"
        /\ ~rx_done
        /\ buffer' = Pad(<<MsgTypeByte.Led, n, LedOp.AckThemeMode>>)
        /\ rx_origin' = Raw
        /\ rx_done' = TRUE
        /\ UNCHANGED usbVars
        /\ UNCHANGED <<state, rx_transfer, pc15, rx_state, lpc, message,
                       dispatch, tx_busy, tx_frame, last, toggle_odd>>

---------------------------------------------------------------------------

\* Led::new
LedInit ==
    /\ state = FALSE
    /\ rx_transfer = "Some"
    /\ pc15 = "pull_up"
    /\ rx_state = "InFlight"
    /\ rx_done = FALSE
    /\ buffer = [i \in 1 .. BufCap |-> 0]
    /\ rx_origin = Raw
    /\ lpc = "idle"
    /\ message = NoMessage
    /\ dispatch = "none"
    /\ tx_busy = FALSE
    /\ tx_frame = <<>>
    /\ last = NoLast
    /\ toggle_odd = FALSE

LedNext ==
    \/ on
    \/ off
    \/ toggle
    \/ next_theme
    \/ next_brightness
    \/ next_animation_speed
    \/ set_theme
    \/ send_keys
    \/ send_music
    \/ get_theme_id
    \/ set_keys
    \/ theme_mode
    \/ bluetooth_mode
    \/ rx
    \/ tx
    \/ RxFrame
    \/ RxCorrupt

\* the endpoint registers while the LED link runs
UsbQuiet ==
    /\ usb_ep0r = Ep0Config
    /\ usb_ep1r = Ep1Config
    /\ uop = "none"
    /\ ubb = {}
    /\ uhist = NoHist
    /\ uhw = 0

\* the LED controller after Led::new, the register operations not running
Init == LedInit /\ UsbQuiet

\* the LED controller and its link
Spec == Init /\ [][LedNext]_vars

\* the registers before an operation, the LED controller not running
InitUsb == UsbInit /\ LedInit

\* the endpoint register operations
SpecUsb == InitUsb /\ [][UsbNext]_vars

---------------------------------------------------------------------------
(* Properties of the endpoint register operations (under SpecUsb)          *)

TxStatusOps == {"set_ep_tx_status_valid", "set_ep_tx_status_valid_dtog",
                "set_ep1_tx_status_valid_dtog"}
RxStatusOps == {"set_ep_rx_status_valid", "set_ep_rx_status_valid_dtog"}
StatusOps == TxStatusOps \cup RxStatusOps
ClearTxOps == {"clear_tx_ep_ctr", "clear_tx_ep1_ctr"}
ClearRxOps == {"clear_rx_ep_ctr", "clear_rx_ep1_ctr"}

\* the written register just before and just after the write
PreReg == uhist.pre[uhist.wr + 1]
PostReg == uhist.post[uhist.wr + 1]

\* the value read, as the register's 16 bits
CurReg == And(uhist.cur, Half16)

\* C1: after each of set_ep_tx_status_valid, set_ep_tx_status_valid_dtog and
\* set_ep1_tx_status_valid_dtog the TX status field (bits 5:4) of the written
\* register is Valid, whatever it was before.
C1_TxStatusValid ==
    uhist.op \in TxStatusOps => StatTx(PostReg) = Valid_TX

\* a TX status operation has moved endpoint 1 from Nak to Valid
C1_Witness ==
    /\ uhist.op = "set_ep1_tx_status_valid_dtog"
    /\ StatTx(CurReg) = {5}
    /\ StatTx(PostReg) = Valid_TX

\* C2: after set_ep_rx_status_valid the RX status field (bits 13:12) of the
\* endpoint 0 register is Valid, whatever it was before.
C2_RxStatusValid ==
    uhist.op = "set_ep_rx_status_valid" => StatRx(PostReg) = Valid_RX

\* C3: after set_ep_rx_status_valid_dtog the RX status field (bits 13:12) of
\* the endpoint 0 register is Valid; in particular Valid stays Valid.
C3_RxStatusValidDtog ==
    uhist.op = "set_ep_rx_status_valid_dtog" => StatRx(PostReg) = Valid_RX

\* C4: the value written by each status-setting operation has a 1 in CTR_RX
\* (bit 15) and in CTR_TX (bit 7), and a flag set before the write is still
\* set after it.
C4_CtrPreserved ==
    uhist.op \in StatusOps =>
        /\ CtrBits \subseteq uhist.w
        /\ And(PreReg, CtrBits) \subseteq PostReg

\* C5: a TX status operation leaves the RX status field as it was, an RX
\* status operation leaves the TX status field as it was, and all of them
\* leave the type, kind and address fields as they were.
C5_OtherFieldsKept ==
    /\ uhist.op \in TxStatusOps => StatRx(PostReg) = StatRx(PreReg)
    /\ uhist.op \in RxStatusOps => StatTx(PostReg) = StatTx(PreReg)
    /\ uhist.op \in StatusOps => ConfigBits(PostReg) = ConfigBits(PreReg)

\* C6: after clear_rx_ep_ctr and clear_rx_ep1_ctr CTR_RX (bit 15) is 0 and
\* CTR_TX (bit 7) has the value it had before.
C6_ClearRxOnly ==
    uhist.op \in ClearRxOps =>
        /\ 15 \notin PostReg
        /\ (7 \in PostReg) = (7 \in PreReg)

\* C7: when nothing changed the register between the read and the write of
\* clear_tx_ep_ctr or clear_tx_ep1_ctr, afterwards CTR_TX (bit 7) is 0,
\* CTR_RX (bit 15) is as before, and both status fields and both data-toggle
\* bits are unchanged.
C7_ClearTxOnly ==
    (uhist.op \in ClearTxOps /\ CurReg = PreReg) =>
        /\ 7 \notin PostReg
        /\ (15 \in PostReg) = (15 \in PreReg)
        /\ StatTx(PostReg) = StatTx(PreReg)
        /\ StatRx(PostReg) = StatRx(PreReg)
        /\ DtogBits(PostReg) = DtogBits(PreReg)

\* clear_tx_ep_ctr has run undisturbed on a register with both flags, both
\* data toggles and both status fields set
C7_Witness ==
    /\ uhist.op = "clear_tx_ep_ctr"
    /\ CurReg = PreReg
    /\ {15, 14, 13, 7, 6, 4} \subseteq PreReg
    /\ 7 \notin PostReg
    /\ 15 \in PostReg

---------------------------------------------------------------------------
(* Properties of the LED controller (under Spec)                           *)

\* C8: outside poll() rx_transfer is Some and its transfer is in flight (not
\* finished); rx_transfer is None only inside poll(), after finish() and
\* before the serial.receive() that follows.
C8_ReceiveArmed ==
    /\ lpc = "idle" => (rx_transfer = "Some" /\ rx_state = "InFlight")
    /\ rx_transfer = "None" => lpc \in {"finished", "decoded", "panic"}

\* a poll() has completed a receive and re-armed it, with a send outstanding
C8_Witness ==
    /\ lpc = "idle"
    /\ last.call = "poll"
    /\ last.result = "Ok"
    /\ tx_busy
    /\ rx_transfer = "Some"
    /\ rx_state = "InFlight"
    /\ ~rx_done

\* C9: the flag starts false and flips on every toggle(), also when the send
\* returns WouldBlock; an odd-numbered toggle issues ThemeMode with an empty
\* payload and leaves the flag true, an even-numbered toggle issues ThemeMode
\* with payload [0] and leaves the flag false.
C9_ToggleMachine ==
    /\ state = toggle_odd
    /\ last.call = "toggle" =>
          /\ last.sends = 1
          /\ last.ch = "Led"
          /\ last.op = LedOp.ThemeMode
          /\ last.payload = IF toggle_odd THEN <<>> ELSE <<0>>

\* an even-numbered toggle whose send returned WouldBlock
C9_Witness ==
    /\ last.call = "toggle"
    /\ last.result = "WouldBlock"
    /\ ~toggle_odd
    /\ last.payload = <<0>>
    /\ state = FALSE

\* C10: a buffer holding the frame [channel, 1 + len(payload), opcode,
\* payload] decodes, by poll()'s rule and without a range error, to that
\* channel, opcode and payload, for payloads of length 0, 1 and the largest
\* that fits.
C10_RoundTrip ==
    /\ (lpc = "decoded" /\ rx_origin # Raw) =>
          message = [msg_type  |-> rx_origin[1],
                     operation |-> rx_origin[2],
                     data      |-> rx_origin[3]]
    /\ lpc = "panic" => rx_origin = Raw

\* a frame with the longest payload has been decoded
C10_Witness ==
    /\ lpc = "decoded"
    /\ rx_origin # Raw
    /\ Len(rx_origin[3]) = MaxPayloadLen
    /\ rx_origin[3][MaxPayloadLen] = 255
    /\ message.data = rx_origin[3]
    /\ message.msg_type = "Keyboard"

\* C11: next_theme, next_brightness and next_animation_speed each issue one
\* ConfigCmd frame on channel Led whose 3-byte payload is [1,0,0], [0,0,1]
\* and [0,1,0] respectively: one non-zero byte each, pairwise distinct.
C11_OneHotConfig ==
    /\ last.call \in {"next_theme", "next_brightness",
                      "next_animation_speed"} =>
          /\ last.sends = 1
          /\ last.ch = "Led"
          /\ last.op = LedOp.ConfigCmd
          /\ Len(last.payload) = 3
          /\ Cardinality({i \in 1 .. 3 : last.payload[i] # 0}) = 1
    /\ last.call = "next_theme" => last.payload = <<1, 0, 0>>
    /\ last.call = "next_brightness" => last.payload = <<0, 0, 1>>
    /\ last.call = "next_animation_speed" => last.payload = <<0, 1, 0>>

\* next_brightness has issued its frame and the send was accepted
C11_Witness ==
    /\ last.call = "next_brightness"
    /\ last.result = "Ok"
    /\ tx_frame = <<MsgTypeByte.Led, 4, LedOp.ConfigCmd, 0, 0, 1>>

\* C12: for every mode bluetooth_mode issues one SetIndividualKeys frame
\* whose payload is 0xCA, 0x0A and then exactly 10 five-byte records (52
\* bytes); the colour of the 9th record (key N0) is (0xff,0xff,0x00) for
\* Legacy, (0x00,0xff,0x00) for Ble and (0x00,0x00,0xff) for Unknown, and
\* every other byte is the same for all three modes.
C12_BluetoothPayload ==
    last.call = "bluetooth_mode" =>
        LET p == last.payload
            mode == last.arg[1]
        IN  /\ last.sends = 1
            /\ last.ch = "Led"
            /\ last.op = LedOp.SetIndividualKeys
            /\ Len(p) = 52
            /\ p[1] = 202
            /\ p[2] = 10
            /\ Len(p) - 2 = 5 * p[2]
            /\ p[43] = KeyIndex.N0
            /\ mode = "Legacy" => <<p[44], p[45], p[46]>> = <<255, 255, 0>>
            /\ mode = "Ble" => <<p[44], p[45], p[46]>> = <<0, 255, 0>>
            /\ mode = "Unknown" => <<p[44], p[45], p[46]>> = <<0, 0, 255>>
            /\ \A i \in (1 .. 52) \ {44, 45, 46} :
                  /\ p[i] = bluetooth_payload("Legacy")[i]
                  /\ p[i] = bluetooth_payload("Ble")[i]
                  /\ p[i] = bluetooth_payload("Unknown")[i]

\* bluetooth_mode(Legacy) has issued its frame
C12_Witness ==
    /\ last.call = "bluetooth_mode"
    /\ last.arg = <<"Legacy">>
    /\ Len(last.payload) = 52
    /\ last.payload[44] = 255
    /\ last.payload[45] = 255

\* the order of finish(), the reads of the buffer and serial.receive()
C13_Ordering ==
    /\ rx_state = "Idle" => rx_done
    /\ lpc \in {"finished", "decoded"} =>
          (last.call = "poll" /\ last.result = "Ok" /\ rx_state = "Idle")
    /\ message # NoMessage => (lpc = "decoded" /\ rx_state = "Idle")
    /\ rx_state = "InFlight" => (message = NoMessage /\ rx_transfer = "Some")

\* the step that re-arms the receive
C13_Rearm ==
    (lpc = "decoded" /\ lpc' = "idle") =>
        (buffer' = buffer /\ rx_state' = "InFlight" /\ rx_transfer' = "Some")

\* C13: finish() is called only in a poll() whose transfer poll returned Ok;
\* the buffer is read (decode and dispatch) only after finish() and before
\* the next serial.receive(), never while the transfer is in flight; and the
\* receive re-arms the buffer finish() returned, contents untouched.
C13_BufferOwnership == []C13_Ordering /\ [][C13_Rearm]_vars

\* the buffer of a finished transfer has been decoded and is not yet re-armed
C13_Witness ==
    /\ lpc = "decoded"
    /\ message # NoMessage
    /\ rx_state = "Idle"
    /\ rx_transfer = "None"
    /\ rx_done
    /\ last.result = "Ok"

\* C14: whatever the length byte buffer[1] of a completed receive, poll()
\* decodes and dispatches without an out-of-range slice access and re-arms
\* the receive: it never stops in the decode, and rx_transfer is Some when
\* it ends.
C14_DecodeBounds ==
    /\ lpc # "panic"
    /\ (last.call = "poll" /\ last.result = "Ok" /\ lpc \notin
          {"finished", "decoded"}) => rx_transfer = "Some"

---------------------------------------------------------------------------
(* Further properties of the endpoint register operations (under SpecUsb)  *)

\* the flags the peripheral raised between the read and the write
RaisedBetween == And(PreReg, CtrBits) \ CurReg

\* C15: a CTR_RX flag the hardware raises between the read and the write of
\* clear_tx_ep_ctr or clear_tx_ep1_ctr is still set after the write, and a
\* CTR flag raised between the read and the write of a status-setting
\* operation is still set after the write.
C15_NoLostFlag ==
    /\ uhist.op \in ClearTxOps =>
          (15 \in RaisedBetween => 15 \in PostReg)
    /\ uhist.op \in StatusOps => RaisedBetween \subseteq PostReg

\* a step of poll() that is past the transfer poll
PollStep == lpc # "idle" \/ lpc' # "idle"

\* the step that decodes the buffer and calls handle_message
DispatchStep == lpc = "finished" /\ lpc' = "decoded"

C16_DispatchInert ==
    DispatchStep =>
        /\ state' = state
        /\ pc15' = pc15
        /\ rx_transfer' = rx_transfer
        /\ tx_busy' = tx_busy
        /\ tx_frame' = tx_frame
        /\ last'.sends = 0

C16_PollKeepsFlag ==
    PollStep =>
        /\ state' = state
        /\ toggle_odd' = toggle_odd
        /\ pc15' = pc15
        /\ tx_busy' = tx_busy
        /\ tx_frame' = tx_frame
        /\ (lpc' = "idle" => rx_transfer' = "Some")

\* C16: for every decoded message handle_message leaves the toggle flag, the
\* indicator line and the receive transfer as they were and sends no frame;
\* no step of a poll() that completes a receive changes the toggle flag, and
\* such a poll ends with rx_transfer re-armed.
C16_DispatchChangesNothing ==
    [][C16_DispatchInert]_vars /\ [][C16_PollKeepsFlag]_vars

\* a message was dispatched while the flag was set and a frame was in flight
C16_Witness ==
    /\ lpc = "decoded"
    /\ dispatch = "logged"
    /\ state
    /\ tx_busy
    /\ pc15 = "high"

\* the state a poll() on a receive still in flight returns in
C17_AfterWouldBlock ==
    (last.call = "poll" /\ last.result = "WouldBlock" /\ lpc = "idle") =>
        /\ lpc = "idle"
        /\ rx_transfer = "Some"
        /\ rx_state = "InFlight"
        /\ message = NoMessage
        /\ dispatch = "none"

\* the last operation was a poll() whose transfer poll returned WouldBlock
WouldBlockPoll(l) == l.call = "poll" /\ l.result = "WouldBlock"

\* the step of a poll() whose transfer poll returns WouldBlock
C17_WouldBlockStep ==
    (~WouldBlockPoll(last) /\ WouldBlockPoll(last')) =>
        /\ ~rx_done
        /\ lpc = "idle"
        /\ lpc' = "idle"
        /\ rx_transfer' = rx_transfer
        /\ rx_state' = rx_state
        /\ state' = state
        /\ buffer' = buffer
        /\ message' = message
        /\ dispatch' = dispatch
        /\ tx_frame' = tx_frame

\* C17: a poll() whose transfer poll returns WouldBlock calls neither
\* finish() nor handle_message nor serial.receive() and leaves rx_transfer,
\* the toggle flag and the buffer unchanged, however many such polls follow
\* one another.
C17_InFlightPollInert == []C17_AfterWouldBlock /\ [][C17_WouldBlockStep]_vars

\* a poll() returned WouldBlock while the flag was set
C17_Witness ==
    /\ last.call = "poll"
    /\ last.result = "WouldBlock"
    /\ state
    /\ ~rx_done

\* the operations on the endpoint 1 register
Ep1Ops == {"clear_tx_ep1_ctr", "clear_rx_ep1_ctr",
           "set_ep1_tx_status_valid_dtog"}

\* the endpoint whose register an operation is for
OwnEp(op) == IF op \in Ep1Ops THEN 1 ELSE 0

\* a register value apart from the flags the peripheral may raise
NoCtr(r) == r \ CtrBits

\* the value read is the own register's, and the write went to the own
\* register and left the other register as it was
C18_OwnRegister ==
    /\ uop # "none" => NoCtr(ubb) = NoCtr(Reg(OwnEp(uop)))
    /\ uhist.op # "none" =>
          /\ uhist.rd = OwnEp(uhist.op)
          /\ uhist.wr = OwnEp(uhist.op)
          /\ NoCtr(uhist.cur) = NoCtr(uhist.pre[OwnEp(uhist.op) + 1])
          /\ uhist.post[2 - OwnEp(uhist.op)] = uhist.pre[2 - OwnEp(uhist.op)]

\* only the write of an operation changes its register, the peripheral apart
C18_OneWrite ==
    /\ (usb_ep0r' # usb_ep0r /\ uhw' = uhw) =>
          (uop # "none" /\ uop \notin Ep1Ops /\ uop' = "none")
    /\ (usb_ep1r' # usb_ep1r /\ uhw' = uhw) =>
          (uop \in Ep1Ops /\ uop' = "none")
    /\ (uop = "none" /\ uop' # "none") =>
          (usb_ep0r' = usb_ep0r /\ usb_ep1r' = usb_ep1r)

\* C18: each register operation makes one read and one write, both on its own
\* endpoint's register: the *_ep1_* operations read and write the endpoint 1
\* register and leave the endpoint 0 register unchanged, every other
\* operation reads and writes the endpoint 0 register and leaves the
\* endpoint 1 register unchanged.
C18_EndpointAddressing == []C18_OwnRegister /\ [][C18_OneWrite]_vars

\* an endpoint 1 operation changed the endpoint 1 register
C18_Witness ==
    /\ uhist.op \in Ep1Ops
    /\ uhist.post[2] # uhist.pre[2]
    /\ uhist.post[1] = uhist.pre[1]

\* the commands of C19
SingleSendOps == {"next_theme", "next_brightness", "next_animation_speed",
                  "set_theme", "theme_mode", "send_keys", "send_music",
                  "get_theme_id", "set_keys", "bluetooth_mode"}

\* the opcode each command sends
OpcodeOf(call) ==
    CASE call \in {"next_theme", "next_brightness", "next_animation_speed"}
            -> LedOp.ConfigCmd
      [] call \in {"set_theme", "theme_mode"} -> LedOp.ThemeMode
      [] call = "send_keys" -> LedOp.Key
      [] call = "send_music" -> LedOp.Music
      [] call = "get_theme_id" -> LedOp.GetThemeId
      [] call \in {"set_keys", "bluetooth_mode"} -> LedOp.SetIndividualKeys

\* what the last command sent
C19_OneSend ==
    last.call \in SingleSendOps =>
        /\ last.sends = 1
        /\ last.ch = "Led"
        /\ last.op = OpcodeOf(last.call)
        /\ last.call = "set_theme" =>
              (Len(last.payload) = 1 /\ last.payload = last.arg)
        /\ last.call \in {"theme_mode", "get_theme_id"} =>
              last.payload = <<>>
        /\ last.call \in {"send_music", "set_keys"} =>
              last.payload = last.arg

\* the flag is set exactly after an odd number of toggles
C19_FlagFollowsToggles == state = toggle_odd

\* a step in which a command of C19 is called
C19_CommandStep ==
    (last'.call \in SingleSendOps
       /\ (last'.call # last.call \/ last'.result # last.result
             \/ last'.payload # last.payload \/ (~tx_busy /\ tx_busy'))) =>
        /\ last'.result = (IF tx_busy THEN "WouldBlock" ELSE "Ok")
        /\ state' = state
        /\ rx_transfer' = rx_transfer
        /\ tx_frame' = (IF tx_busy THEN tx_frame
                        ELSE Encode(last'.ch, last'.op, last'.payload))

\* only toggle() changes the flag, only poll() changes rx_transfer
C19_OnlyToggle ==
    /\ state' # state => (last'.call = "toggle" /\ toggle_odd' # toggle_odd)
    /\ rx_transfer' # rx_transfer => PollStep

\* C19: each of next_theme, next_brightness, next_animation_speed, set_theme,
\* theme_mode, send_keys, send_music, get_theme_id, set_keys and
\* bluetooth_mode makes one send on channel Led with its opcode (set_theme
\* with ThemeMode and payload [id], theme_mode with ThemeMode and no payload,
\* get_theme_id with GetThemeId and no payload, send_music with Music,
\* set_keys with SetIndividualKeys), returns that send's result, and leaves
\* the toggle flag and rx_transfer unchanged; only toggle() changes the flag,
\* so the flag, and with it the command the next toggle sends, depends on
\* the number of toggles alone.
C19_StatelessCommands ==
    /\ []C19_OneSend
    /\ []C19_FlagFollowsToggles
    /\ [][C19_CommandStep]_vars
    /\ [][C19_OnlyToggle]_vars

\* set_theme(7) was called with the flag set and its send was refused
C19_Witness ==
    /\ last.call = "set_theme"
    /\ last.payload = <<7>>
    /\ last.result = "WouldBlock"
    /\ state
    /\ rx_transfer = "Some"

=============================================================================
